---- MODULE Spec2Model ----
(***************************************************************************)
(* State-machine model of the Streamlit chat client in src/app/main.py and *)
(* of the provisioning tool in src/app/scripts/create_kb.py.  The two are  *)
(* separate programs: Spec is the chat client, SpecKB one run of the tool, *)
(* and SpecSelect applies the protocol selection of main() to identifiers. *)
(*                                                                         *)
(* One session is modelled.  st.session_state is the persistent state;     *)
(* one script run (a call of main()) is the thread of control, and pc is   *)
(* its position.  Streamlit serialises the script runs of a session: a     *)
(* widget interaction stops the running script at its next st.* call and   *)
(* starts a new run, so Interrupt (the running script is stopped, its      *)
(* locals are lost, session_state is kept) always precedes the next run.   *)
(*                                                                         *)
(* Strings are sequences of tokens; concatenation of strings (f-strings,   *)
(* +=) is \o.  Python's None for a string-valued local is <<>>, where the  *)
(* code only tests truthiness.                                             *)
(*                                                                         *)
(* Rendering (st.write, st.image, the expanders) and the uploaded files    *)
(* write neither history nor the job and are left out.  utils.bedrock      *)
(* (BedrockHandler, KBHandler, S3Handler) is called, not defined, by       *)
(* main.py: its message builders follow the shapes main.py reads           *)
(* (content[0]["text"], job["invocation_arn"], job["s3_details"]), and     *)
(* its remote calls answer or raise as the environment decides.            *)
(***************************************************************************)
EXTENDS Integers, Sequences, FiniteSets, TLC

(***************************************************************************)
(* Bounds of the model.                                                    *)
(***************************************************************************)
MaxTurns == 2          \* user prompts submitted in a behaviour
MaxJobs == 2           \* backend video jobs submitted in a behaviour
MaxStreamLen == 2      \* events of one response stream
MaxIdLen == 3          \* tokens of a model identifier given to the selection

(***************************************************************************)
(* Configuration (config.json) and the values the environment supplies.    *)
(***************************************************************************)
start_message == <<"START">>
system_prompt == <<"SYS">>
Blank == "\n\n"

Regions == {"Frankfurt", "Virginia"}

\* configs["multimodal_llms"][region]: display name -> model identifier
Models ==
    { [name |-> <<"Amazon ", "Nova Canvas">>, id |-> <<"amazon.", "nova", "-canvas", "-v1:0">>],
      [name |-> <<"Amazon ", "Nova Reel">>,   id |-> <<"amazon.", "nova", "-reel", "-v1:0">>],
      [name |-> <<"Claude">>,                 id |-> <<"anthropic", ".claude-x">>],
      [name |-> <<"Amazon ", "Nova Lite">>,   id |-> <<"amazon.", "nova", "-lite", "-v1:0">>] }

Prompts == { <<"p">> }
BucketInputs == { <<>>, <<"my-bucket">> }      \* the 'S3 Output Location' text input
default_bucket == <<"bedrock-video-generation-us-east-1-", "ACCOUNT">>
ReplyTexts == { <<"r">> }                      \* text of a blocking text response
DeltaTexts == { "a", "b" }                     \* text of one contentBlockDelta event
VideoPaths == { <<"out/", "output.mp4">> }     \* path resolved by the storage check
FailureMessages == { <<"quota">> }             \* failureMessage of a Failed job
ExceptionTexts == { <<"timeout">> }            \* str(e) of a transport exception

\* key in s: the sequence key occurs in s as a contiguous run of tokens
Contains(key, s) ==
    \E i \in 0..(Len(s) - Len(key)) :
        \A j \in 1..Len(key) : s[i + j] = key[j]

VARIABLES
    messages,           \* st.session_state.messages (display history)
    bedrock_messages,   \* st.session_state.bedrock_messages (wire history)
    video_job,          \* st.session_state.video_job: <<>> is None, <<job>> a job
    has_video_job,      \* "video_job" in st.session_state
    selected_region,    \* st.session_state.selected_region
    all_kbs,            \* st.session_state.all_kbs (names)
    pc,                 \* position of the running script
    run,                \* locals of the running script that later steps read
    request,            \* the messages argument of the last backend text call
    streamed_response,  \* handle_text_generation: streamed_response
    placeholder,        \* what placeholder.markdown last displayed
    full_response,      \* the response about to be passed to update_chat_history
    jobs_submitted,     \* number of generate_video calls the backend accepted
    reports,            \* per job: terminal reports appended to the history
    turns,              \* number of prompts submitted so far
    tool                \* scripts/create_kb.py: the state of one run of the tool

vars == << messages, bedrock_messages, video_job, has_video_job, selected_region,
           all_kbs, pc, run, request, streamed_response, placeholder,
           full_response, jobs_submitted, reports, turns, tool >>


(***************************************************************************)
(* Values of the script's locals when no script is running.                *)
(***************************************************************************)
NoStatus == [ status |-> "", completed |-> FALSE, failed |-> FALSE, error |-> <<>> ]

\* params and handler are the parameter set and the handler main() selected;
\* queried: retriever.get_relevant_docs was called; stream: the events read
\* from the response stream; polled: the handle of the last status fetch;
\* waited: the loop has printed "Waiting for S3 upload to complete..."
NoRun ==
    [ model_id |-> <<>>, params |-> "none", handler |-> "none",
      streaming |-> FALSE, bucket_path |-> <<>>,
      s3_uri |-> <<>>, queried |-> FALSE, docs |-> <<>>, submitted |-> FALSE,
      events |-> 0, stream |-> <<>>, polled |-> 0, waited |-> FALSE,
      status |-> NoStatus, video_exists |-> FALSE, video_path |-> <<>>,
      error |-> "none" ]

NoRequest == [ api |-> "none", msgs |-> <<>> ]
NoResponse == [ form |-> "none", text |-> <<>>, image |-> <<>> ]

(***************************************************************************)
(* Display and wire forms of a turn.                                       *)
(***************************************************************************)
\* {"role": role, "content": content} of st.session_state.messages
DisplayTurn(role, content) == [ role |-> role, content |-> content ]

\* a plain str content
StrContent(text) == [ form |-> "str", text |-> text, image |-> <<>> ]

\* a dict content {"text": text} or {"text": text, "image": image}
DictContent(text, image) == [ form |-> "dict", text |-> text, image |-> image ]

\* one wire message: role, content[0]["text"], and the "s3_uri" key (<<>>: no key)
WireMessage(role, text, s3_uri) == [ role |-> role, text |-> text, s3_uri |-> s3_uri ]

\* KBHandler.parse_kb_output_to_string: each document prefixed with its source
RECURSIVE parse_kb_output_to_string(_)
parse_kb_output_to_string(docs) ==
    IF docs = <<>> THEN <<>>
    ELSE << Head(docs).location, Head(docs).text >> \o parse_kb_output_to_string(Tail(docs))

\* BedrockHandler.user_message(prompt, context, files): context ahead of the prompt
user_message(prompt, context) == WireMessage("user", context \o prompt, <<>>)

\* BedrockHandler.assistant_message(text)
assistant_message(text) == WireMessage("assistant", text, <<>>)

\* BedrockHandler.system_message(): the configured system prompt as a message
system_message == WireMessage("system", system_prompt, <<>>)

\* BedrockHandler.generate_video: the job record the backend returns for a handle
generate_video(arn, s3_uri) ==
    [ invocation_arn |-> arn, s3_details |-> [ bucket |-> Tail(s3_uri), prefix |-> arn ] ]

\* bedrock-agent list_knowledge_bases per region, through get_all_kbs
ListKnowledgeBases(region) == IF region = "Frankfurt" THEN {"kb-docs"} ELSE {}

\* documents the retriever may return for a prompt
RetrievedDocs(kb_selection) ==
    IF kb_selection = "None" THEN { <<>> }
    ELSE { <<>>, << [ location |-> "s3://docs/a", text |-> "doc-a" ] >> }

(***************************************************************************)
(* setup_sidebar                                                           *)
(***************************************************************************)
is_image_model(m) == Contains(<<"Nova Canvas">>, m.name)
is_video_model(m) == Contains(<<"Nova Reel">>, m.name)

\* streaming_on: the toggle for a text model, False otherwise
StreamingOn(m, toggle) ==
    IF ~(is_image_model(m) \/ is_video_model(m)) THEN toggle ELSE FALSE

\* kb_selection choices
KbChoices(m, kbs) ==
    IF ~(is_image_model(m) \/ is_video_model(m)) THEN {"None"} \cup kbs ELSE {"None"}

\* s3_uri = f"s3://{bucket_path or default_bucket}" for a video model, else None
SidebarS3Uri(m, bucket_path) ==
    IF is_video_model(m)
    THEN <<"s3://">> \o (IF bucket_path # <<>> THEN bucket_path ELSE default_bucket)
    ELSE <<>>

(***************************************************************************)
(* get_video_status                                                        *)
(***************************************************************************)
\* what client.get_async_invoke does: return a response or raise
AsyncInvokeResults ==
    { [ raised |-> FALSE, status |-> s, failureMessage |-> <<>>, exc |-> <<>> ] :
          s \in { "InProgress", "Completed", "" } }
    \cup { [ raised |-> FALSE, status |-> "Failed", failureMessage |-> f, exc |-> <<>> ] :
          f \in FailureMessages \cup { <<>> } }
    \cup { [ raised |-> TRUE, status |-> "", failureMessage |-> <<>>, exc |-> e ] :
          e \in ExceptionTexts }

\* mutation: a response without a recognised status counts as failed
get_video_status_UnknownFails(r) ==
    IF r.raised
    THEN [ status |-> "Error", completed |-> FALSE, failed |-> TRUE, error |-> r.exc ]
    ELSE [ status |-> IF r.status = "" THEN "Unknown" ELSE r.status,
           completed |-> r.status = "Completed",
           failed |-> r.status \notin { "Completed", "InProgress" },
           error |-> r.failureMessage ]

\* status "" is a response without a "status" key; error <<>> is None
get_video_status(r) ==
    IF r.raised
    THEN [ status |-> "Error", completed |-> FALSE, failed |-> TRUE, error |-> r.exc ]
    ELSE [ status |-> IF r.status = "" THEN "Unknown" ELSE r.status,
           completed |-> r.status = "Completed",
           failed |-> r.status = "Failed",
           error |-> r.failureMessage ]

\* str() of an Optional[str] inside an f-string
FormatOptional(s) == IF s = <<>> THEN <<"None">> ELSE s

CompletedMessage(bucket, video_path) ==
    <<"Video generation completed! Video available at: ", "s3://">>
        \o bucket \o <<"/">> \o video_path

\* mutation: the failure message of the backend is dropped
FailedMessage_Generic(error) == <<"Video generation failed: ">>

FailedMessage(error) == <<"Video generation failed: ">> \o FormatOptional(error)

(***************************************************************************)
(* Session-state operations                                                *)
(***************************************************************************)
StartHistory == << DisplayTurn("assistant", StrContent(start_message)) >>

\* the provisioning tool before it is started
NoTool ==
    [ pc |-> "start", region_name |-> "", bucket_arg |-> <<>>, use_s3 |-> FALSE,
      clients |-> {}, calls |-> {}, bucket_name |-> <<>>, head_bucket |-> "",
      collection_status |-> "", attempts |-> 0, kb |-> <<>>, ds |-> <<>>,
      job_status |-> "", kb_info_json |-> FALSE, raised |-> "none" ]

\* mutation: clear_screen leaves the job slot alone
ClearedVideoJob_Kept(job) == job

\* clear_screen's assignment to video_job: None when the key exists
ClearedVideoJob(job) == <<>>

clear_screen ==
    /\ messages' = StartHistory
    /\ bedrock_messages' = <<>>
    /\ video_job' = IF has_video_job THEN ClearedVideoJob(video_job) ELSE video_job
    /\ UNCHANGED has_video_job

\* mutation: a response without text is not stored
update_chat_history_SkipsEmpty(response) ==
    IF response.text = <<>>
    THEN UNCHANGED << messages, bedrock_messages >>
    ELSE /\ messages' = Append(messages, DisplayTurn("assistant", response))
         /\ bedrock_messages' = Append(bedrock_messages, assistant_message(response.text))

\* update_chat_history(response)
update_chat_history(response) ==
    /\ messages' = Append(messages, DisplayTurn("assistant", response))
    /\ bedrock_messages' = Append(bedrock_messages, assistant_message(response.text))

\* the script ends (returns, raises or is stopped): its locals are gone
EndRun(err) ==
    /\ pc' = "idle"
    /\ run' = [ NoRun EXCEPT !.error = err ]
    /\ request' = NoRequest
    /\ streamed_response' = <<>>
    /\ placeholder' = <<>>
    /\ full_response' = NoResponse

Init ==
    /\ messages = StartHistory
    /\ bedrock_messages = <<>>
    /\ video_job = <<>>
    /\ has_video_job = FALSE
    /\ selected_region = "Frankfurt"
    /\ all_kbs = ListKnowledgeBases("Frankfurt")
    /\ pc = "idle"
    /\ run = NoRun
    /\ request = NoRequest
    /\ streamed_response = <<>>
    /\ placeholder = <<>>
    /\ full_response = NoResponse
    /\ jobs_submitted = 0
    /\ reports = [ j \in 1..MaxJobs |-> 0 ]
    /\ turns = 0
    /\ tool = NoTool


(***************************************************************************)
(* main(): the run that handles a chat_input prompt                        *)
(***************************************************************************)
\* full_messages = messages.copy() is a shallow copy: full_messages[0] is the
\* dict stored in st.session_state.bedrock_messages[0], so the assignment to
\* full_messages[0]["content"][0]["text"] writes the stored wire message too.
\* This is the list (request and stored history alike) after that assignment.
PrependSystem(msgs) ==
    IF system_message.text # <<>> /\ Len(msgs) > 0 /\ msgs[1].role = "user"
    THEN [ msgs EXCEPT ![1].text = system_prompt \o <<Blank>> \o @ ]
    ELSE msgs

\* converse_messages of the non-streaming branch
ConverseMessages(model_id, full_messages) ==
    IF Contains(<<"anthropic">>, model_id)
    THEN (IF system_message.text # <<>> THEN << system_message >> ELSE <<>>) \o full_messages
    ELSE full_messages

IsImageId(model_id) == Contains(<<"nova", "-canvas">>, model_id)
IsVideoId(model_id) == Contains(<<"nova", "-reel">>, model_id)

\* mutation: the generic family is tried first
model_params_GenericFirst ==
    << [ key |-> <<"nova">>,            params |-> "nova_model_params" ],
       [ key |-> <<"nova", "-canvas">>, params |-> "nova_canvas_params" ],
       [ key |-> <<"nova", "-reel">>,   params |-> "nova_reel_params" ],
       [ key |-> <<"anthropic">>,       params |-> "claude_model_params" ] >>

\* model_params: family key -> parameter set of config.json, in insertion order
model_params ==
    << [ key |-> <<"nova", "-canvas">>, params |-> "nova_canvas_params" ],
       [ key |-> <<"nova", "-reel">>,   params |-> "nova_reel_params" ],
       [ key |-> <<"anthropic">>,       params |-> "claude_model_params" ],
       [ key |-> <<"nova">>,            params |-> "nova_model_params" ] >>

\* next((params for key, params in items if key in model_id), default)
RECURSIVE FirstMatch(_, _, _)
FirstMatch(items, model_id, default) ==
    IF items = <<>> THEN default
    ELSE IF Contains(Head(items).key, model_id) THEN Head(items).params
    ELSE FirstMatch(Tail(items), model_id, default)

\* params = next(..., configs["nova_model_params"])
SelectParams(model_id) == FirstMatch(model_params, model_id, "nova_model_params")

\* the handler main() calls for the prompt: if / elif / else on the identifier
Handler(model_id) ==
    IF IsImageId(model_id) THEN "image"
    ELSE IF IsVideoId(model_id) THEN "video"
    ELSE "text"

\* mutation: the retriever is asked on every turn
ShouldRetrieve_Always(model_id) == TRUE

\* `if not ("nova-canvas" in model_id or "nova-reel" in model_id)`: the
\* retriever is asked for documents
ShouldRetrieve(model_id) == ~(IsImageId(model_id) \/ IsVideoId(model_id))

\* the locals of a run started with these sidebar values
StartRun(m, toggle, bucket_path, docs) ==
    [ NoRun EXCEPT !.model_id = m.id,
                   !.params = SelectParams(m.id),
                   !.handler = Handler(m.id),
                   !.streaming = StreamingOn(m, toggle),
                   !.bucket_path = bucket_path,
                   !.s3_uri = SidebarS3Uri(m, bucket_path),
                   !.queried = ShouldRetrieve(m.id),
                   !.docs = docs ]

\* handle_text_generation up to the backend call; the backend answers or raises
TextTurn(prompt, m, toggle, kb_selection, docs, ok, reply) ==
    LET r == StartRun(m, toggle, <<>>, docs)
        context == parse_kb_output_to_string(docs)
        user_msg == user_message(prompt, context)
        full_messages == PrependSystem(Append(bedrock_messages, user_msg))
    IN  /\ pc = "idle"
        /\ turns < MaxTurns
        /\ turns' = turns + 1
        /\ Handler(m.id) = "text"
        /\ kb_selection \in KbChoices(m, all_kbs)
        /\ docs \in RetrievedDocs(kb_selection)
        /\ messages' = Append(messages, DisplayTurn("user", StrContent(prompt)))
        /\ bedrock_messages' = full_messages
        /\ IF ~ok
           THEN EndRun("none")
           ELSE /\ run' = r
                /\ streamed_response' = <<>>
                /\ placeholder' = <<>>
                /\ IF r.streaming
                   THEN /\ request' = [ api |-> "converse_stream", msgs |-> full_messages ]
                        /\ pc' = "streaming"
                        /\ full_response' = NoResponse
                   ELSE /\ request' = [ api |-> "converse",
                                        msgs |-> ConverseMessages(m.id, full_messages) ]
                        /\ pc' = "respond"
                        /\ full_response' = StrContent(reply)
        /\ UNCHANGED << video_job, has_video_job, selected_region, all_kbs,
                        jobs_submitted, reports, tool >>

\* mutation: the history is updated inside the stream loop
StreamEvent_Appending(delta) ==
    /\ pc = "streaming"
    /\ run.events < MaxStreamLen
    /\ streamed_response' = IF delta # "" THEN Append(streamed_response, delta)
                                          ELSE streamed_response
    /\ placeholder' = streamed_response'
    /\ run' = [ run EXCEPT !.events = @ + 1, !.stream = Append(@, delta) ]
    /\ update_chat_history(DictContent(streamed_response', <<>>))
    /\ UNCHANGED << video_job, has_video_job, selected_region, all_kbs, pc, request,
                    full_response, jobs_submitted, reports, turns, tool >>

\* mutation: a fragment is put in front of the accumulated text
StreamEvent_Reversed(delta) ==
    /\ pc = "streaming"
    /\ run.events < MaxStreamLen
    /\ streamed_response' = IF delta # "" THEN << delta >> \o streamed_response
                                          ELSE streamed_response
    /\ placeholder' = streamed_response'
    /\ run' = [ run EXCEPT !.events = @ + 1, !.stream = Append(@, delta) ]
    /\ UNCHANGED << messages, bedrock_messages, video_job, has_video_job,
                    selected_region, all_kbs, pc, request, full_response,
                    jobs_submitted, reports, turns, tool >>

\* one event of the stream: a contentBlockDelta (delta # "") or another event
StreamEvent(delta) ==
    /\ pc = "streaming"
    /\ run.events < MaxStreamLen
    /\ streamed_response' = IF delta # "" THEN Append(streamed_response, delta)
                                          ELSE streamed_response
    /\ placeholder' = streamed_response'
    /\ run' = [ run EXCEPT !.events = @ + 1, !.stream = Append(@, delta) ]
    /\ UNCHANGED << messages, bedrock_messages, video_job, has_video_job,
                    selected_region, all_kbs, pc, request, full_response,
                    jobs_submitted, reports, turns, tool >>

\* the stream is exhausted (or the response held no stream)
StreamEnd ==
    /\ pc = "streaming"
    /\ full_response' = DictContent(streamed_response, <<>>)
    /\ pc' = "respond"
    /\ UNCHANGED << messages, bedrock_messages, video_job, has_video_job,
                    selected_region, all_kbs, run, request, streamed_response,
                    placeholder, jobs_submitted, reports, turns, tool >>

\* the stream raises while it is iterated
StreamFail ==
    /\ pc = "streaming"
    /\ EndRun("none")
    /\ UNCHANGED << messages, bedrock_messages, video_job, has_video_job,
                    selected_region, all_kbs, jobs_submitted, reports, turns, tool >>

\* update_chat_history(full_response), the last statement of the text and the
\* image handler
FinishTurn ==
    /\ pc = "respond"
    /\ update_chat_history(full_response)
    /\ EndRun("none")
    /\ UNCHANGED << video_job, has_video_job, selected_region, all_kbs,
                    jobs_submitted, reports, turns, tool >>

\* handle_image_generation up to update_chat_history
ImageTurn(prompt, m, ok) ==
    LET user_msg == user_message(prompt, <<>>)
    IN  /\ pc = "idle"
        /\ turns < MaxTurns
        /\ turns' = turns + 1
        /\ Handler(m.id) = "image"
        /\ messages' = Append(messages, DisplayTurn("user", StrContent(prompt)))
        /\ bedrock_messages' = Append(bedrock_messages, user_msg)
        /\ IF ~ok
           THEN EndRun("none")
           ELSE /\ run' = StartRun(m, FALSE, <<>>, <<>>)
                /\ request' = [ api |-> "invoke", msgs |-> bedrock_messages' ]
                /\ pc' = "respond"
                /\ full_response' = DictContent(
                        <<"I've generated the image based on your prompt.">>, <<"b64image">>)
                /\ UNCHANGED << streamed_response, placeholder >>
        /\ UNCHANGED << video_job, has_video_job, selected_region, all_kbs,
                        jobs_submitted, reports, tool >>


(***************************************************************************)
(* handle_video_generation                                                 *)
(***************************************************************************)
\* mutation: every video request submits a backend job
ShouldSubmit_Always(job) == TRUE

\* `if st.session_state.video_job is None`: a backend job is submitted
ShouldSubmit(job) == job = <<>>

\* mutation: the job slot is not cleared after the report
JobAfterReport_Kept(job) == job

\* st.session_state.video_job after a terminal report
JobAfterReport(job) == <<>>

\* mutation: the backend status alone decides completion
ArtifactConfirmed_StatusOnly(r) == r.status.completed

\* `if video_exists` under `if status["completed"]`
ArtifactConfirmed(r) == r.video_exists

\* main() for a video model, and handle_video_generation up to its poll loop
VideoTurn(prompt, m, bucket_path, ok) ==
    LET r == StartRun(m, FALSE, bucket_path, <<>>)
        user_msg == [ user_message(prompt, <<>>) EXCEPT !.s3_uri = r.s3_uri ]
        arn == jobs_submitted + 1
    IN  /\ pc = "idle"
        /\ turns < MaxTurns
        /\ turns' = turns + 1
        /\ Handler(m.id) = "video"
        /\ messages' = Append(messages, DisplayTurn("user", StrContent(prompt)))
        /\ IF r.s3_uri = <<>>
           THEN \* "Please provide an S3 output location for video generation"
                /\ EndRun("config")
                /\ UNCHANGED << bedrock_messages, video_job, has_video_job, jobs_submitted >>
           ELSE /\ bedrock_messages' = Append(bedrock_messages, user_msg)
                /\ has_video_job' = TRUE
                /\ IF ShouldSubmit(video_job)
                   THEN /\ jobs_submitted < MaxJobs
                        /\ IF ok
                           THEN /\ video_job' = << generate_video(arn, r.s3_uri) >>
                                /\ jobs_submitted' = arn
                                /\ pc' = "polling"
                                /\ run' = [ r EXCEPT !.submitted = TRUE ]
                                /\ UNCHANGED << request, streamed_response,
                                                placeholder, full_response >>
                           ELSE /\ EndRun("none")
                                /\ UNCHANGED << video_job, jobs_submitted >>
                   ELSE /\ pc' = "polling"
                        /\ run' = r
                        /\ UNCHANGED << video_job, jobs_submitted, request,
                                        streamed_response, placeholder, full_response >>
        /\ UNCHANGED << selected_region, all_kbs, reports, tool >>

\* status = get_video_status(bedrock_runtime, video_job["invocation_arn"])
PollStatus(result) ==
    /\ pc = "polling"
    /\ run' = [ run EXCEPT !.status = get_video_status(result),
                           !.polled = video_job[1].invocation_arn ]
    /\ pc' = "status"
    /\ UNCHANGED << messages, bedrock_messages, video_job, has_video_job,
                    selected_region, all_kbs, request, streamed_response,
                    placeholder, full_response, jobs_submitted, reports, turns, tool >>

\* S3Handler().check_video_exists(bucket, prefix) under `if status["completed"]`
CheckVideo(video_exists, video_path) ==
    /\ pc = "status"
    /\ run.status.completed
    /\ run' = [ run EXCEPT !.video_exists = video_exists,
                           !.video_path = IF video_exists THEN video_path ELSE <<>> ]
    /\ pc' = "checked"
    /\ UNCHANGED << messages, bedrock_messages, video_job, has_video_job,
                    selected_region, all_kbs, request, streamed_response,
                    placeholder, full_response, jobs_submitted, reports, turns, tool >>

\* the terminal report of either branch: history, job slot, end of the loop
Report(message) ==
    /\ update_chat_history(DictContent(message, <<>>))
    /\ video_job' = JobAfterReport(video_job)
    /\ reports' = [ reports EXCEPT ![video_job[1].invocation_arn] = @ + 1 ]
    /\ EndRun("none")
    /\ UNCHANGED << has_video_job, selected_region, all_kbs, jobs_submitted, turns, tool >>

\* `if video_exists:` ... break
ReportCompleted ==
    /\ pc = "checked"
    /\ ArtifactConfirmed(run)
    /\ Report(CompletedMessage(video_job[1].s3_details.bucket, run.video_path))

\* "Waiting for S3 upload to complete...", time.sleep(10)
WaitForUpload ==
    /\ pc = "checked"
    /\ ~ArtifactConfirmed(run)
    /\ pc' = "polling"
    /\ run' = [ run EXCEPT !.waited = TRUE ]
    /\ UNCHANGED << messages, bedrock_messages, video_job, has_video_job,
                    selected_region, all_kbs, request, streamed_response,
                    placeholder, full_response, jobs_submitted, reports, turns, tool >>

\* `elif status["failed"]:` ... break
ReportFailed ==
    /\ pc = "status"
    /\ ~run.status.completed
    /\ run.status.failed
    /\ Report(FailedMessage(run.status.error))

\* mutation: the loop gives up on a status that is not terminal
KeepPolling_GivesUp ==
    /\ pc = "status"
    /\ ~run.status.completed
    /\ ~run.status.failed
    /\ EndRun("none")
    /\ UNCHANGED << messages, bedrock_messages, video_job, has_video_job,
                    selected_region, all_kbs, jobs_submitted, reports, turns, tool >>

\* `else:` "Generating Video...", time.sleep(10)
KeepPolling ==
    /\ pc = "status"
    /\ ~run.status.completed
    /\ ~run.status.failed
    /\ pc' = "polling"
    /\ UNCHANGED << messages, bedrock_messages, video_job, has_video_job,
                    selected_region, all_kbs, run, request, streamed_response,
                    placeholder, full_response, jobs_submitted, reports, turns, tool >>

(***************************************************************************)
(* Reruns and callbacks                                                    *)
(***************************************************************************)
\* mutation: stopping the script empties the job slot
Interrupt_DropsJob ==
    /\ pc # "idle"
    /\ EndRun("none")
    /\ video_job' = <<>>
    /\ UNCHANGED << messages, bedrock_messages, has_video_job,
                    selected_region, all_kbs, jobs_submitted, reports, turns, tool >>

\* the running script is stopped (a rerun, or the session is abandoned)
Interrupt ==
    /\ pc # "idle"
    /\ EndRun("none")
    /\ UNCHANGED << messages, bedrock_messages, video_job, has_video_job,
                    selected_region, all_kbs, jobs_submitted, reports, turns, tool >>

\* the "New Chat" button: on_click=clear_screen
NewChat ==
    /\ pc = "idle"
    /\ clear_screen
    /\ EndRun("none")
    /\ UNCHANGED << selected_region, all_kbs, jobs_submitted, reports, turns, tool >>

\* the region selectbox: on_change=on_region_change
RegionChange(region) ==
    /\ pc = "idle"
    /\ region # selected_region
    /\ selected_region' = region
    /\ clear_screen
    /\ all_kbs' = ListKnowledgeBases(region)
    /\ EndRun("none")
    /\ UNCHANGED << jobs_submitted, reports, turns, tool >>

StreamDeltas == DeltaTexts \cup { "" }

\* a call of BedrockHandler (invoke_model, invoke_model_with_stream,
\* generate_video) answers (TRUE) or raises the backend's error (FALSE)
BackendAnswers == BOOLEAN

Next ==
    \/ \E p \in Prompts, m \in Models, toggle \in BOOLEAN, kb \in {"None"} \cup all_kbs,
          ok \in BackendAnswers, reply \in ReplyTexts :
          \E docs \in RetrievedDocs(kb) : TextTurn(p, m, toggle, kb, docs, ok, reply)
    \/ \E delta \in StreamDeltas : StreamEvent(delta)
    \/ StreamEnd
    \/ StreamFail
    \/ FinishTurn
    \/ \E p \in Prompts, m \in Models, ok \in BackendAnswers : ImageTurn(p, m, ok)
    \/ \E p \in Prompts, m \in Models, b \in BucketInputs, ok \in BackendAnswers :
          VideoTurn(p, m, b, ok)
    \/ \E result \in AsyncInvokeResults : PollStatus(result)
    \/ \E e \in BOOLEAN, path \in VideoPaths : CheckVideo(e, path)
    \/ ReportCompleted
    \/ WaitForUpload
    \/ ReportFailed
    \/ KeepPolling
    \/ Interrupt
    \/ NewChat
    \/ \E region \in Regions : RegionChange(region)

Spec == Init /\ [][Next]_vars

(***************************************************************************)
(* The poll loop left to run: the script is not stopped while it is in     *)
(* `while True`, and the loop, being sequential code, takes its next step. *)
(* Text and image turns run only between video runs and touch neither the  *)
(* job nor the loop; they are left out of this specification.              *)
(***************************************************************************)
PollPcs == { "polling", "status", "checked" }

\* one step of the `while True` loop of handle_video_generation
LoopStep ==
    \/ \E result \in AsyncInvokeResults : PollStatus(result)
    \/ \E e \in BOOLEAN, path \in VideoPaths : CheckVideo(e, path)
    \/ ReportCompleted
    \/ WaitForUpload
    \/ ReportFailed
    \/ KeepPolling

\* the session used for video requests: prompts to a video model, the loop,
\* and the two callbacks that reset the session between runs
NextLive ==
    \/ \E p \in Prompts, m \in Models, b \in BucketInputs, ok \in BackendAnswers :
          VideoTurn(p, m, b, ok)
    \/ LoopStep
    \/ NewChat
    \/ \E region \in Regions : RegionChange(region)

SpecLive == Init /\ [][NextLive]_vars /\ WF_vars(LoopStep)

chat_vars == << messages, bedrock_messages, video_job, has_video_job, selected_region,
                all_kbs, pc, run, request, streamed_response, placeholder,
                full_response, jobs_submitted, reports, turns >>

(***************************************************************************)
(* The protocol selection of main() applied to model identifiers           *)
(***************************************************************************)
IdTokens == { "amazon.", "nova", "-canvas", "-reel", "anthropic" }

\* identifiers of 1..MaxIdLen tokens
ModelIds == UNION { [ 1..n -> IdTokens ] : n \in 1..MaxIdLen }

InitSelect ==
    /\ messages = StartHistory
    /\ bedrock_messages = <<>>
    /\ video_job = <<>>
    /\ has_video_job = FALSE
    /\ selected_region = "Frankfurt"
    /\ all_kbs = ListKnowledgeBases("Frankfurt")
    /\ pc = "idle"
    /\ \E id \in ModelIds : run = [ NoRun EXCEPT !.model_id = id ]
    /\ request = NoRequest
    /\ streamed_response = <<>>
    /\ placeholder = <<>>
    /\ full_response = NoResponse
    /\ jobs_submitted = 0
    /\ reports = [ j \in 1..MaxJobs |-> 0 ]
    /\ turns = 0
    /\ tool = NoTool

\* lines 178-181 and the dispatch of lines 252-269 for run.model_id
SelectProtocol ==
    /\ run.handler = "none"
    /\ run' = [ run EXCEPT !.params = SelectParams(run.model_id),
                           !.handler = Handler(run.model_id) ]
    /\ UNCHANGED << messages, bedrock_messages, video_job, has_video_job,
                    selected_region, all_kbs, pc, request, streamed_response,
                    placeholder, full_response, jobs_submitted, reports, turns, tool >>

NextSelect == SelectProtocol

SpecSelect == InitSelect /\ [][NextSelect]_vars


(***************************************************************************)
(* scripts/create_kb.py: one run of the provisioning tool                  *)
(*                                                                         *)
(* tool.calls is the set of backend operations the run has called,         *)
(* tool.clients the AWS clients it has created, tool.kb_info_json whether  *)
(* kb_info.json was written.  A backend call answers or raises as the      *)
(* environment decides; an exception nobody catches ends the run.          *)
(***************************************************************************)
RegionArgs == { "us-east-1", "us-west-2", "eu-west-1", "eu-central-1" }  \* --region_name
BucketArgs == { <<>>, <<"my-kb-bucket">> }                               \* --bucket_name
stop_max_attempt_number == 7                  \* of @retry on create_knowledge_base_func

\* mutation: every region is accepted
SupportedRegions_Any == RegionArgs

\* `if region_name not in ["us-east-1", "us-west-2"]`
SupportedRegions == { "us-east-1", "us-west-2" }

\* head_bucket answers, or raises ClientError: 404 no such bucket, 403 the
\* bucket exists and the caller may not access it
HeadBucketResults == { "ok", "404", "403" }
CollectionStatuses == { "CREATING", "ACTIVE", "FAILED" }
IngestionStatuses == { "STARTING", "IN_PROGRESS", "COMPLETE", "FAILED" }

\* an exception leaves main(): the process ends
Raise(t, exception) == [ t EXCEPT !.pc = "exited", !.raised = exception ]

\* args = parser.parse_args()
ParseArgs(region_name, bucket_name, use_s3) ==
    /\ tool.pc = "start"
    /\ tool' = [ tool EXCEPT !.pc = "parsed", !.region_name = region_name,
                             !.bucket_arg = bucket_name, !.use_s3 = use_s3 ]
    /\ UNCHANGED chat_vars

\* the region check of main()
CheckRegion ==
    /\ tool.pc = "parsed"
    /\ tool' = IF tool.region_name \notin SupportedRegions
               THEN Raise(tool, "NotSupportedRegionException")
               ELSE [ tool EXCEPT !.pc = "setup" ]
    /\ UNCHANGED chat_vars

\* the session, the clients, the bucket name and the CreateKB instance
SetupClients(ok) ==
    /\ tool.pc = "setup"
    /\ LET t == [ tool EXCEPT
                    !.clients = { "bedrock-agent", "s3", "opensearchserverless", "sts" },
                    !.calls = @ \cup { "get_caller_identity" } ]
       IN  tool' = IF ~ok THEN Raise(t, "ClientError")
                   ELSE [ t EXCEPT !.pc = "create_bucket",
                                   !.bucket_name =
                                       IF tool.bucket_arg = <<>>
                                       THEN << "bedrock-kb-", tool.region_name, "-", "ACCOUNT" >>
                                       ELSE tool.bucket_arg ]
    /\ UNCHANGED chat_vars

\* Step 1: CreateKB.create_bucket
create_bucket(head, ok) ==
    /\ tool.pc = "create_bucket"
    /\ LET t == [ tool EXCEPT !.calls = @ \cup { "head_bucket" }, !.head_bucket = head ]
           c == [ t EXCEPT !.calls = @ \cup { "create_bucket" } ]
       IN  tool' = IF head = "ok" THEN [ t EXCEPT !.pc = "collection" ]
                   ELSE IF ok THEN [ c EXCEPT !.pc = "collection" ]
                   ELSE Raise(c, "ClientError")
    /\ UNCHANGED chat_vars

\* Step 2: create_os_polices_and_collection up to its first batch_get_collection
create_os_polices_and_collection(ok, status) ==
    /\ tool.pc = "collection"
    /\ LET t == [ tool EXCEPT !.calls = @ \cup { "create_bedrock_execution_role",
                                                  "create_policies_in_oss",
                                                  "create_collection" } ]
       IN  tool' = IF ~ok THEN Raise(t, "ClientError")
                   ELSE [ t EXCEPT !.pc = "collection_wait",
                                   !.calls = @ \cup { "batch_get_collection" },
                                   !.collection_status = status ]
    /\ UNCHANGED chat_vars

\* `while status == "CREATING"`: sleep, batch_get_collection
WaitCollection(status) ==
    /\ tool.pc = "collection_wait"
    /\ tool.collection_status = "CREATING"
    /\ tool' = [ tool EXCEPT !.collection_status = status ]
    /\ UNCHANGED chat_vars

\* the access policy is attached to the role; an exception here is printed
AttachPolicy ==
    /\ tool.pc = "collection_wait"
    /\ tool.collection_status # "CREATING"
    /\ tool' = [ tool EXCEPT !.pc = "vector_index",
                             !.calls = @ \cup { "create_oss_policy_attach_bedrock_execution_role" } ]
    /\ UNCHANGED chat_vars

\* Step 3: create_vector_index; a RequestError is printed
create_vector_index ==
    /\ tool.pc = "vector_index"
    /\ tool' = [ tool EXCEPT !.pc = "upload", !.calls = @ \cup { "indices.create" } ]
    /\ UNCHANGED chat_vars

\* `if not args.use_s3: kb_instance.upload_directory("../data")`
upload_directory(ok) ==
    /\ tool.pc = "upload"
    /\ LET t == [ tool EXCEPT !.calls = @ \cup { "upload_file" } ]
       IN  tool' = IF tool.use_s3 THEN [ tool EXCEPT !.pc = "create_kb" ]
                   ELSE IF ok THEN [ t EXCEPT !.pc = "create_kb" ]
                   ELSE Raise(t, "ClientError")
    /\ UNCHANGED chat_vars

\* mutation: after the last failed attempt the function goes on without a
\* knowledge base
create_knowledge_base_func_GoesOn(ok) ==
    /\ tool.pc = "create_kb"
    /\ tool.attempts < stop_max_attempt_number
    /\ LET t == [ tool EXCEPT !.attempts = @ + 1,
                              !.calls = @ \cup { "create_knowledge_base" } ]
       IN  tool' = IF ok THEN [ t EXCEPT !.pc = "data_source", !.kb = << t.attempts >> ]
                   ELSE IF t.attempts = stop_max_attempt_number
                        THEN [ t EXCEPT !.pc = "data_source" ]
                   ELSE t
    /\ UNCHANGED chat_vars

\* Step 4: one attempt of create_knowledge_base_func under @retry.  After the
\* last failed attempt the exception is printed and `kb` was never bound, so
\* self.printer.pprint(kb) raises.
create_knowledge_base_func(ok) ==
    /\ tool.pc = "create_kb"
    /\ tool.attempts < stop_max_attempt_number
    /\ LET t == [ tool EXCEPT !.attempts = @ + 1,
                              !.calls = @ \cup { "create_knowledge_base" } ]
       IN  tool' = IF ok THEN [ t EXCEPT !.pc = "data_source", !.kb = << t.attempts >> ]
                   ELSE IF t.attempts = stop_max_attempt_number
                        THEN Raise(t, "UnboundLocalError")
                   ELSE t
    /\ UNCHANGED chat_vars

\* create_data_source and get_data_source with kb["knowledgeBaseId"]
create_data_source(ok) ==
    /\ tool.pc = "data_source"
    /\ LET t == [ tool EXCEPT !.calls = @ \cup { "create_data_source" } ]
       IN  tool' = IF ok THEN [ t EXCEPT !.pc = "ingestion", !.ds = tool.kb,
                                         !.calls = @ \cup { "get_data_source" } ]
                   ELSE Raise(t, "ClientError")
    /\ UNCHANGED chat_vars

\* Step 5: start_ingestion_job up to its wait loop
start_ingestion_job(ok, status) ==
    /\ tool.pc = "ingestion"
    /\ LET t == [ tool EXCEPT !.calls = @ \cup { "start_ingestion_job" } ]
       IN  tool' = IF ok THEN [ t EXCEPT !.pc = "ingestion_wait", !.job_status = status ]
                   ELSE Raise(t, "ClientError")
    /\ UNCHANGED chat_vars

\* `while job["status"] != "COMPLETE"`: get_ingestion_job, sleep
get_ingestion_job(status) ==
    /\ tool.pc = "ingestion_wait"
    /\ tool.job_status # "COMPLETE"
    /\ tool' = [ tool EXCEPT !.calls = @ \cup { "get_ingestion_job" },
                             !.job_status = status ]
    /\ UNCHANGED chat_vars

\* start_ingestion_job returns; main() writes kb_info.json
WriteKbInfo ==
    /\ tool.pc = "ingestion_wait"
    /\ tool.job_status = "COMPLETE"
    /\ tool' = [ tool EXCEPT !.pc = "done", !.kb_info_json = TRUE ]
    /\ UNCHANGED chat_vars

NextKB ==
    \/ \E r \in RegionArgs, b \in BucketArgs, u \in BOOLEAN : ParseArgs(r, b, u)
    \/ CheckRegion
    \/ \E ok \in BOOLEAN : SetupClients(ok)
    \/ \E head \in HeadBucketResults, ok \in BOOLEAN : create_bucket(head, ok)
    \/ \E ok \in BOOLEAN, status \in CollectionStatuses :
          create_os_polices_and_collection(ok, status)
    \/ \E status \in CollectionStatuses : WaitCollection(status)
    \/ AttachPolicy
    \/ create_vector_index
    \/ \E ok \in BOOLEAN : upload_directory(ok)
    \/ \E ok \in BOOLEAN : create_knowledge_base_func(ok)
    \/ \E ok \in BOOLEAN : create_data_source(ok)
    \/ \E ok \in BOOLEAN, status \in IngestionStatuses : start_ingestion_job(ok, status)
    \/ \E status \in IngestionStatuses : get_ingestion_job(status)
    \/ WriteKbInfo

SpecKB == Init /\ [][NextKB]_vars


(***************************************************************************)
(* Vocabulary of the properties                                            *)
(***************************************************************************)
Last(h) == h[Len(h)]

IsPrefix(h, g) == Len(h) <= Len(g) /\ \A i \in 1..Len(h) : g[i] = h[i]

\* a step that starts the run for a new prompt
TurnStep == turns' = turns + 1

\* a step that appends a terminal report of the video job
ReportStep == reports' # reports

IsCompletedReport(t) ==
    /\ t.role = "assistant"
    /\ Len(t.content.text) > 0
    /\ t.content.text[1] = CompletedMessage(<<>>, <<>>)[1]

IsFailedReport(t) ==
    /\ t.role = "assistant"
    /\ Len(t.content.text) > 0
    /\ t.content.text[1] = FailedMessage(<<>>)[1]

\* C1: a poll whose status fetch raised leaves the job, its handle and both
\* histories as they are and emits no terminal report.
C1_TransportErrorKeepsPolling ==
    [][ (pc = "status" /\ run.status.status = "Error")
            => /\ video_job' = video_job
               /\ messages' = messages
               /\ bedrock_messages' = bedrock_messages
               /\ reports' = reports ]_vars

\* C2: a Completed report is appended only by the iteration that saw the
\* backend status Completed and the artifact present, it carries the resolved
\* path and clears the job; Completed without artifact changes neither the
\* job nor the histories and goes back to polling.
C2_CompletedNeedsArtifact ==
    /\ [][ (Len(messages') > Len(messages) /\ IsCompletedReport(Last(messages')))
             => /\ pc = "checked"
                /\ run.status.completed
                /\ run.video_exists
                /\ Last(messages').content.text =
                       CompletedMessage(video_job[1].s3_details.bucket, run.video_path)
                /\ Last(bedrock_messages') = assistant_message(Last(messages').content.text)
                /\ video_job' = <<>> ]_vars
    /\ [][ (pc = "checked" /\ ~run.video_exists)
             => /\ messages' = messages
                /\ bedrock_messages' = bedrock_messages
                /\ video_job' = video_job
                /\ reports' = reports
                /\ pc' \in { "polling", "idle" } ]_vars

\* C2 witness: a Completed report with the resolved path is in the history.
C2_Witness ==
    \E i \in 1..Len(messages), path \in VideoPaths :
        /\ IsCompletedReport(messages[i])
        /\ messages[i].content.text = CompletedMessage(<<"my-bucket">>, path)
        /\ video_job = <<>>


\* C3: no job is reported more than once; the step that appends a terminal
\* report appends exactly one assistant turn, clears the job slot and ends
\* the loop; the job slot is emptied out of the poll loop only with that
\* report; and a video request that finds the slot empty submits a new job.
C3_OneTerminalReport ==
    /\ [] (\A j \in 1..MaxJobs : reports[j] <= 1)
    /\ [][ ReportStep
             => /\ video_job # <<>>
                /\ reports' = [ reports EXCEPT ![video_job[1].invocation_arn] = @ + 1 ]
                /\ Len(messages') = Len(messages) + 1
                /\ IsCompletedReport(Last(messages')) \/ IsFailedReport(Last(messages'))
                /\ video_job' = <<>>
                /\ pc' = "idle" ]_vars
    /\ [][ (pc \in { "status", "checked" } /\ video_job' # video_job)
             => (ReportStep /\ video_job' = <<>>) ]_vars
    /\ [][ (TurnStep /\ video_job = <<>> /\ pc' = "polling")
             => /\ jobs_submitted' = jobs_submitted + 1
                /\ video_job' # <<>>
                /\ video_job'[1].invocation_arn = jobs_submitted' ]_vars

\* C3 witness: the first job was reported once and cleared, and the next
\* video request has submitted a second backend job.
C3_Witness ==
    /\ reports[1] = 1
    /\ jobs_submitted = 2
    /\ video_job # <<>>
    /\ video_job[1].invocation_arn = 2
    /\ pc = "polling"

C5_EmptyLocationFailsFast ==
    run.bucket_path = <<>> => (~run.submitted /\ pc \notin { "polling", "status", "checked" })


\* number of copies of the system prompt in a text
RECURSIVE SysCount(_)
SysCount(text) ==
    IF Len(text) < Len(system_prompt) THEN 0
    ELSE (IF SubSeq(text, 1, Len(system_prompt)) = system_prompt THEN 1 ELSE 0)
             + SysCount(Tail(text))

\* the first user message of a request
FirstUser(msgs) == msgs[CHOOSE i \in 1..Len(msgs) :
                            /\ msgs[i].role = "user"
                            /\ \A j \in 1..(i - 1) : msgs[j].role # "user"]

\* the text the model reads: the texts of the messages in order, separators dropped
RECURSIVE ModelInput(_)
ModelInput(msgs) ==
    IF msgs = <<>> THEN <<>>
    ELSE SelectSeq(Head(msgs).text, LAMBDA tok : tok # Blank) \o ModelInput(Tail(msgs))

TextRequest == request.api \in { "converse_stream", "converse" }

\* C6: in every text request the first user message holds the system text
\* exactly once, on the first turn and on every later turn.
C6_SystemPromptOnce ==
    TextRequest => SysCount(FirstUser(request.msgs).text) = 1

\* C7: on the non-streaming path of a protocol with a system role the system
\* text is the leading element instead of a prefix of the first user block,
\* and the request reads the same as the streaming request for that history
\* (the streaming request is the stored wire history after the prepend).
C7_PathsEquivalent ==
    (request.api = "converse" /\ Contains(<<"anthropic">>, run.model_id))
        => /\ Head(request.msgs) = system_message
           /\ SysCount(FirstUser(request.msgs).text) = 0
           /\ ModelInput(request.msgs) = ModelInput(bedrock_messages)

\* C8: outside a reset every step keeps every stored entry of the display
\* and of the wire history as it is (entries are only appended).
C8_TurnsImmutable ==
    [][ \/ (messages' = StartHistory /\ bedrock_messages' = <<>>)
        \/ (IsPrefix(messages, messages') /\ IsPrefix(bedrock_messages, bedrock_messages')) ]_vars

\* C9: a step that drops a turn, changes the region, or empties the job slot
\* without a terminal report is a reset, and a reset leaves the wire history
\* empty, the display history with the start message only and the job slot
\* empty, all in that one step.
C9_ResetAtomic ==
    [][ ( \/ Len(messages') < Len(messages)
          \/ Len(bedrock_messages') < Len(bedrock_messages)
          \/ selected_region' # selected_region
          \/ (video_job # <<>> /\ video_job' = <<>> /\ ~ReportStep) )
            => /\ messages' = StartHistory
               /\ bedrock_messages' = <<>>
               /\ video_job' = <<>>
               /\ pc' = "idle" ]_vars

\* C9 witness: a job was submitted and never reported, and after the reset
\* the histories are empty and the job slot is empty.
C9_Witness ==
    /\ jobs_submitted = 1
    /\ reports[1] = 0
    /\ has_video_job
    /\ video_job = <<>>
    /\ messages = StartHistory
    /\ bedrock_messages = <<>>

\* C10: while the stream is consumed the histories do not change and the
\* display shows the text accumulated so far; the assistant turn of a
\* streamed call is appended in one step after the stream is exhausted, with
\* the whole accumulated text, which the display already shows; when the run
\* stops or the stream fails the accumulated text is dropped and nothing is
\* appended.
C10_NoPartialTurn ==
    /\ [] (pc = "streaming"
             => /\ placeholder = streamed_response
                /\ Last(bedrock_messages).role = "user"
                /\ Last(messages).role = "user")
    /\ [][ pc = "streaming"
             => /\ messages' = messages
                /\ bedrock_messages' = bedrock_messages
                /\ pc' \in { "streaming", "respond", "idle" }
                /\ (pc' = "respond" => full_response' = DictContent(streamed_response, <<>>))
                /\ (pc' = "idle" => streamed_response' = <<>> /\ full_response' = NoResponse) ]_vars
    /\ [][ (pc = "respond" /\ request.api = "converse_stream")
             => /\ placeholder = full_response.text
                /\ \/ /\ messages' = Append(messages, DisplayTurn("assistant", full_response))
                      /\ bedrock_messages' =
                             Append(bedrock_messages, assistant_message(full_response.text))
                   \/ /\ messages' = messages
                      /\ bedrock_messages' = bedrock_messages
                /\ pc' = "idle" ]_vars

\* C10 witness: a stream is half consumed: text is accumulated and displayed,
\* and the last entry of the history is still the user's.
C10_Witness ==
    /\ pc = "streaming"
    /\ run.events = 1
    /\ streamed_response # <<>>
    /\ placeholder = streamed_response
    /\ Last(messages).role = "user"

\* C11: a text or image turn whose backend call raises ends with an assistant
\* turn that surfaces the error, in the display and in the wire history.
C11_BackendErrorSurfaced ==
    [][ ( /\ TurnStep
          /\ pc' = "idle"
          /\ bedrock_messages' # bedrock_messages
          /\ Last(bedrock_messages').s3_uri = <<>> )
            => /\ Last(messages').role = "assistant"
               /\ Last(bedrock_messages').role = "assistant" ]_vars

\* C12: once an iteration of the poll loop has seen Completed without the
\* artifact, a status fetch that raises does not make the job Failed: no
\* terminal report is appended and the job is kept.
C12_SuccessNeverFails ==
    [][ (run.waited /\ pc = "status" /\ run.status.status = "Error")
            => /\ reports' = reports
               /\ video_job' = video_job ]_vars

\* C13: the job is in session state whenever the poll loop runs, and every
\* status fetch uses its handle; stopping the script in the poll loop leaves
\* the job record as it is; a later run that enters the poll loop with the
\* job present keeps the record and submits no backend job.
C13_HandleSurvivesInterrupt ==
    /\ [] (pc \in { "polling", "status", "checked" } => (has_video_job /\ video_job # <<>>))
    /\ [] (pc \in { "status", "checked" } => run.polled = video_job[1].invocation_arn)
    /\ [][ (pc \in { "polling", "status", "checked" } /\ pc' = "idle" /\ ~ReportStep)
             => (video_job' = video_job /\ has_video_job') ]_vars
    /\ [][ (TurnStep /\ video_job # <<>> /\ pc' = "polling")
             => /\ video_job' = video_job
                /\ jobs_submitted' = jobs_submitted
                /\ ~run'.submitted ]_vars

\* C13 witness: the second run fetches the status of the job the first run
\* submitted.
C13_Witness ==
    /\ pc = "status"
    /\ turns = 2
    /\ ~run.submitted
    /\ jobs_submitted = 1
    /\ run.polled = 1
    /\ video_job[1].invocation_arn = 1

\* C14: the parameter set is the one of the first family, in the order
\* nova-canvas, nova-reel, anthropic, nova, whose key occurs in the
\* identifier, the nova set when none occurs, and the handler is the one of
\* that family: image, video, text, text.
C14_FirstMatchFamily ==
    run.handler # "none" =>
        LET id == run.model_id
            canvas == Contains(<<"nova", "-canvas">>, id)
            reel == Contains(<<"nova", "-reel">>, id)
            anthropic == Contains(<<"anthropic">>, id)
        IN  /\ canvas => (run.params = "nova_canvas_params" /\ run.handler = "image")
            /\ (~canvas /\ reel) => (run.params = "nova_reel_params" /\ run.handler = "video")
            /\ (~canvas /\ ~reel /\ anthropic)
                  => (run.params = "claude_model_params" /\ run.handler = "text")
            /\ (~canvas /\ ~reel /\ ~anthropic)
                  => (run.params = "nova_model_params" /\ run.handler = "text")

\* C14 witness: an identifier that holds the keys nova-canvas and nova was
\* given the image parameters and the image handler.
C14_Witness ==
    /\ run.model_id = << "amazon.", "nova", "-canvas" >>
    /\ run.params = "nova_canvas_params"
    /\ run.handler = "image"

\* C15: the retriever is asked only by a run dispatched to the text handler;
\* a run of the image or the video handler holds no documents and its wire
\* message is the prompt alone.
C15_RetrievalOnlyForText ==
    /\ [] (run.queried => run.handler = "text")
    /\ [] (run.handler \in { "image", "video" } => run.docs = <<>>)
    /\ [][ (TurnStep /\ run'.handler \in { "image", "video" })
             => Last(bedrock_messages').text \in Prompts ]_vars

\* C15 witness: an image turn is in progress, the retriever was not asked and
\* the wire message is the prompt.
C15_Witness ==
    /\ pc = "respond"
    /\ run.handler = "image"
    /\ ~run.queried
    /\ Last(bedrock_messages).role = "user"
    /\ Last(bedrock_messages).text \in Prompts

\* the texts of the contentBlockDelta events of a stream, in order
RECURSIVE DeltaConcat(_)
DeltaConcat(events) ==
    IF events = <<>> THEN <<>>
    ELSE (IF Head(events) # "" THEN << Head(events) >> ELSE <<>>) \o DeltaConcat(Tail(events))

\* C16: the text accumulated from a stream is the in-order concatenation of
\* the texts of its delta events; the assistant turn of a streamed call
\* carries that text, and its wire message is built from the text the same
\* way as the wire message of a non-streamed call.
C16_StreamConcatenation ==
    /\ [] (pc = "streaming" => streamed_response = DeltaConcat(run.stream))
    /\ [][ (pc = "respond" /\ request.api = "converse_stream" /\ messages' # messages)
             => /\ Last(messages').role = "assistant"
                /\ Last(messages').content.text = DeltaConcat(run.stream)
                /\ bedrock_messages' =
                       Append(bedrock_messages, assistant_message(DeltaConcat(run.stream))) ]_vars
    /\ [][ (pc = "respond" /\ request.api = "converse" /\ messages' # messages)
             => /\ Last(messages').content.text = full_response.text
                /\ bedrock_messages' =
                       Append(bedrock_messages, assistant_message(full_response.text)) ]_vars

\* C16 witness: a stream of two delta events was consumed and its turn stored.
C16_Witness ==
    /\ pc = "idle"
    /\ Last(messages) = DisplayTurn("assistant", DictContent(<<"a", "b">>, <<>>))
    /\ Last(bedrock_messages) = assistant_message(<<"a", "b">>)

\* the assistant turn of a response without text
EmptyTurn == DisplayTurn("assistant", DictContent(<<>>, <<>>))

\* C17: a stream that ends without a delta event can be closed, its response
\* has the empty text, and the turn can finish by appending exactly one
\* assistant turn with empty text to the display and to the wire history.
C17_EmptyStreamSucceeds ==
    /\ [] ((pc = "streaming" /\ DeltaConcat(run.stream) = <<>>)
             => ENABLED (StreamEnd /\ full_response' = DictContent(<<>>, <<>>)))
    /\ [] ((pc = "respond" /\ request.api = "converse_stream"
                           /\ DeltaConcat(run.stream) = <<>>)
             => ENABLED ( /\ FinishTurn
                          /\ messages' = Append(messages, EmptyTurn)
                          /\ bedrock_messages' =
                                 Append(bedrock_messages, assistant_message(<<>>)) ))
    /\ [][ (pc = "respond" /\ request.api = "converse_stream"
                           /\ DeltaConcat(run.stream) = <<>> /\ messages' # messages)
             => /\ messages' = Append(messages, EmptyTurn)
                /\ bedrock_messages' = Append(bedrock_messages, assistant_message(<<>>))
                /\ pc' = "idle" ]_vars

\* C17 witness: the turn of a stream without delta events is stored.
C17_Witness ==
    /\ pc = "idle"
    /\ Last(messages) = EmptyTurn
    /\ Last(bedrock_messages) = assistant_message(<<>>)

\* C18: every turn of the display history has a text or an image, and every
\* message of the wire history has a text.
C18_ContentNeverEmpty ==
    /\ \A i \in 1..Len(messages) :
           messages[i].content.text # <<>> \/ messages[i].content.image # <<>>
    /\ \A i \in 1..Len(bedrock_messages) : bedrock_messages[i].text # <<>>

\* C19: the iteration that fetched the status Failed can report, and when it
\* goes on it appends one assistant message with the failure message of the
\* backend, clears the job and ends the loop; the storage is not checked and
\* the loop does not go round.
C19_FailedReportsAndClears ==
    /\ [] ((pc = "status" /\ run.status.status = "Failed") => ENABLED ReportFailed)
    /\ [][ (pc = "status" /\ run.status.status = "Failed")
             => LET text == << "Video generation failed: " >>
                                \o (IF run.status.error = <<>> THEN << "None" >>
                                                               ELSE run.status.error)
                IN  /\ pc' = "idle"
                    /\ \/ /\ messages' = Append(messages,
                                 DisplayTurn("assistant", DictContent(text, <<>>)))
                          /\ bedrock_messages' =
                                 Append(bedrock_messages, assistant_message(text))
                          /\ video_job' = <<>>
                          /\ reports' = [ reports EXCEPT ![video_job[1].invocation_arn] = @ + 1 ]
                       \/ /\ messages' = messages
                          /\ bedrock_messages' = bedrock_messages
                          /\ video_job' = video_job
                          /\ reports' = reports ]_vars

\* C19 witness: the failure message of the backend is in the history and the
\* job slot is empty.
C19_Witness ==
    /\ pc = "idle"
    /\ Last(messages).content.text = << "Video generation failed: ", "quota" >>
    /\ Last(bedrock_messages).text = << "Video generation failed: ", "quota" >>
    /\ has_video_job
    /\ video_job = <<>>
    /\ reports[1] = 1

\* C20: a run started with a region other than us-east-1 and us-west-2 ends
\* at the region check with NotSupportedRegionException: it creates no
\* client, calls no backend operation and does not write kb_info.json.
C20_UnsupportedRegionStopsFirst ==
    /\ [] ((tool.pc # "start" /\ tool.region_name \notin { "us-east-1", "us-west-2" })
             => /\ tool.pc \in { "parsed", "exited" }
                /\ tool.clients = {}
                /\ tool.calls = {}
                /\ ~tool.kb_info_json
                /\ (tool.pc = "exited" => tool.raised = "NotSupportedRegionException"))
    /\ [][ (tool.pc = "parsed" /\ tool.region_name \notin { "us-east-1", "us-west-2" })
             => (tool'.pc = "exited" /\ tool'.raised = "NotSupportedRegionException") ]_vars

\* C20 witness: the run for eu-west-1 has ended at the region check.
C20_Witness ==
    /\ tool.pc = "exited"
    /\ tool.region_name = "eu-west-1"
    /\ tool.raised = "NotSupportedRegionException"
    /\ tool.clients = {}
    /\ ~tool.kb_info_json

\* C21: create_bucket is called only when head_bucket found no bucket, never
\* when head_bucket answered and never for another failure of head_bucket.
C21_CreateOnlyWhenAbsent ==
    /\ (tool.head_bucket = "ok" => "create_bucket" \notin tool.calls)
    /\ ("create_bucket" \in tool.calls => tool.head_bucket = "404")

\* C22: every status fetch uses the handle of the stored job; an iteration
\* that fetched a status other than Completed and Failed (a missing status
\* is Unknown) can go round, and it leaves the job record and both histories
\* as they are, emits no terminal report and goes back to the fetch.
C22_NonTerminalKeepsPolling ==
    /\ [][ (pc = "polling" /\ pc' # "idle")
             => /\ pc' = "status"
                /\ run'.polled = video_job[1].invocation_arn
                /\ video_job' = video_job
                /\ messages' = messages
                /\ bedrock_messages' = bedrock_messages ]_vars
    /\ [] ((pc = "status" /\ run.status.status \in { "InProgress", "Unknown" })
             => ENABLED (KeepPolling /\ pc' = "polling"))
    /\ [][ (pc = "status" /\ run.status.status \in { "InProgress", "Unknown" })
             => /\ video_job' = video_job
                /\ messages' = messages
                /\ bedrock_messages' = bedrock_messages
                /\ reports' = reports
                /\ pc' \in { "polling", "idle" } ]_vars

\* C22 witness: the loop has gone round after a response without a status,
\* the job is still there and unreported.
C22_Witness ==
    /\ pc = "polling"
    /\ run.status.status = "Unknown"
    /\ run.polled = 1
    /\ video_job # <<>>
    /\ video_job[1].invocation_arn = 1
    /\ reports[1] = 0

\* C23: the display history has one entry more than the wire history, entry
\* i + 1 of the display history has the role of entry i of the wire history,
\* and the roles of the wire history alternate user, assistant, user, ...
C23_HistoriesAligned ==
    /\ Len(messages) = Len(bedrock_messages) + 1
    /\ \A i \in 1..Len(bedrock_messages) : messages[i + 1].role = bedrock_messages[i].role
    /\ \A i \in 1..Len(bedrock_messages) :
           bedrock_messages[i].role = (IF i % 2 = 1 THEN "user" ELSE "assistant")

\* C24: with the loop left to run, a fetched status Failed, and a storage
\* check that found the artifact after the status Completed, each lead to
\* the terminal report of that job with the job slot empty and the run
\* ended; every iteration fetches the status; and the loop has no other
\* exit: after a status that is not terminal, and after Completed without
\* the artifact, it goes round again, whatever the number of rounds.
C24_PollLoopLiveness ==
    /\ \A j \in 1..MaxJobs :
           ( /\ pc = "status"
             /\ run.status.status = "Failed"
             /\ video_job[1].invocation_arn = j )
               ~> (reports[j] = 1 /\ video_job = <<>> /\ pc = "idle")
    /\ \A j \in 1..MaxJobs :
           ( /\ pc = "checked"
             /\ run.status.completed
             /\ run.video_exists
             /\ video_job[1].invocation_arn = j )
               ~> (reports[j] = 1 /\ video_job = <<>> /\ pc = "idle")
    /\ (pc = "polling") ~> (pc = "status")
    /\ [][ pc = "polling" => pc' = "status" ]_vars
    /\ [][ (pc = "status" /\ run.status.completed) => pc' = "checked" ]_vars
    /\ [][ (pc = "status" /\ run.status.status \in { "InProgress", "Unknown" })
             => (pc' = "polling" /\ video_job' = video_job) ]_vars
    /\ [][ (pc = "checked" /\ ~run.video_exists)
             => (pc' = "polling" /\ video_job' = video_job) ]_vars

\* C24 witness: the loop went round after Completed without the artifact and
\* the storage check of a later round has found it.
C24_Witness ==
    /\ pc = "checked"
    /\ run.waited
    /\ run.status.completed
    /\ run.video_exists
    /\ reports[1] = 0

\* C25: create_knowledge_base is called at most 7 times; create_data_source
\* is called only with the knowledge base the last, successful, attempt
\* returned; a run whose 7 attempts all failed has ended without a data
\* source, and every run that got past create_knowledge_base holds a
\* knowledge base and its data source.
C25_DataSourceAfterSuccess ==
    /\ tool.attempts <= 7
    /\ "create_data_source" \in tool.calls
           => (tool.kb # <<>> /\ tool.kb[1] = tool.attempts)
    /\ tool.ds # <<>> => tool.ds = tool.kb
    /\ (tool.attempts = 7 /\ tool.kb = <<>>)
           => /\ tool.pc = "exited"
              /\ "create_data_source" \notin tool.calls
              /\ tool.ds = <<>>
    /\ tool.pc \in { "ingestion", "ingestion_wait", "done" }
           => (tool.kb # <<>> /\ tool.ds = tool.kb)

\* C25 witness: all 7 attempts failed and the run has ended; no data source
\* was created.
C25_Witness ==
    /\ tool.pc = "exited"
    /\ tool.attempts = 7
    /\ tool.kb = <<>>
    /\ "create_knowledge_base" \in tool.calls
    /\ "create_data_source" \notin tool.calls

\* C26: kb_info.json is written, and the wait loop of start_ingestion_job is
\* left, only with the ingestion job seen COMPLETE; and an ingestion job seen
\* FAILED ends the wait loop: its status is not fetched again.
C26_IngestionWaitEnds ==
    /\ [] (tool.kb_info_json => tool.job_status = "COMPLETE")
    /\ [] (tool.pc = "done" => tool.job_status = "COMPLETE")
    /\ [][ (tool.pc = "ingestion_wait" /\ tool.job_status = "FAILED")
             => tool'.pc # "ingestion_wait" ]_vars

====
